---- MODULE Spec2Model ----
(***************************************************************************)
(* A model of the CBOR codec of dfinity/cbor-js: src/src/encode/encode.ts  *)
(* (lines 1-280), src/src/decode/decode.ts (lines 1-263) and the value     *)
(* model of cbor-value.ts (src/unnamed/part_004, lines 1-81).              *)
(*                                                                         *)
(* Both files keep their working state in module-level variables; the      *)
(* model keeps that state in the records `enc` and `dec`, which every      *)
(* operator of the codec takes and returns, so that what one call leaves   *)
(* behind is what the next call (or a call nested in a callback) finds.    *)
(***************************************************************************)
EXTENDS Integers, Sequences, FiniteSets, TLC

VARIABLES enc, dec, call, out, ncalls

vars == <<enc, dec, call, out, ncalls>>

(***************************************************************************)
(* Natural numbers of any size.  TLC's integers are 32 bits wide and the   *)
(* codec handles magnitudes up to 2^64 and beyond, so a magnitude is a     *)
(* sequence of base-256 digits, most significant first, without leading    *)
(* zeros (zero is the empty sequence).                                     *)
(***************************************************************************)
Byte == 0..255

RECURSIVE NatNorm(_)
NatNorm(s) == IF s = <<>> THEN <<>>
              ELSE IF Head(s) = 0 THEN NatNorm(Tail(s)) ELSE s

RECURSIVE NatFromInt(_)
NatFromInt(i) == IF i = 0 THEN <<>> ELSE Append(NatFromInt(i \div 256), i % 256)

RECURSIVE NatValue(_)
NatValue(n) == IF n = <<>> THEN 0
               ELSE NatValue(SubSeq(n, 1, Len(n) - 1)) * 256 + n[Len(n)]

RECURSIVE SeqLE(_, _)
SeqLE(a, b) == IF a = <<>> THEN TRUE
               ELSE IF Head(a) # Head(b) THEN Head(a) < Head(b)
               ELSE SeqLE(Tail(a), Tail(b))

NatLE(a, b) == IF Len(a) # Len(b) THEN Len(a) < Len(b) ELSE SeqLE(a, b)
NatLT(a, b) == ~NatLE(b, a)

RECURSIVE NatSucc(_)
NatSucc(n) == IF n = <<>> THEN <<1>>
              ELSE IF n[Len(n)] < 255
                   THEN [n EXCEPT ![Len(n)] = @ + 1]
                   ELSE Append(NatSucc(SubSeq(n, 1, Len(n) - 1)), 0)

\* n - 1, for n > 0
RECURSIVE NatPredRaw(_)
NatPredRaw(n) == IF n[Len(n)] > 0
                 THEN [n EXCEPT ![Len(n)] = @ - 1]
                 ELSE Append(NatPredRaw(SubSeq(n, 1, Len(n) - 1)), 255)
NatPred(n) == NatNorm(NatPredRaw(n))

\* a + b, digit by digit from the least significant end
RECURSIVE NatAddRaw(_, _, _)
NatAddRaw(a, b, carry) ==
  IF a = <<>> /\ b = <<>> THEN (IF carry = 0 THEN <<>> ELSE <<carry>>)
  ELSE LET da == IF a = <<>> THEN 0 ELSE a[Len(a)]
           db == IF b = <<>> THEN 0 ELSE b[Len(b)]
           ra == IF a = <<>> THEN <<>> ELSE SubSeq(a, 1, Len(a) - 1)
           rb == IF b = <<>> THEN <<>> ELSE SubSeq(b, 1, Len(b) - 1)
           s  == da + db + carry
       IN Append(NatAddRaw(ra, rb, s \div 256), s % 256)
NatAdd(a, b) == NatAddRaw(a, b, 0)

\* the w low-order bytes of n, most significant first (n modulo 256^w)
NatToBytes(n, w) ==
  [i \in 1..w |-> IF Len(n) - w + i >= 1 THEN n[Len(n) - w + i] ELSE 0] \o <<>>

\* quotient and remainder of a digit sequence by a small divisor
RECURSIVE NatDivModRaw(_, _, _)
NatDivModRaw(n, d, r) ==
  IF n = <<>> THEN [q |-> <<>>, r |-> r]
  ELSE LET cur  == r * 256 + Head(n)
           rest == NatDivModRaw(Tail(n), d, cur % d)
       IN [q |-> <<cur \div d>> \o rest.q, r |-> rest.r]

\* the decimal digits of n, as String(n) and `${n}` write an integer
RECURSIVE NatToDecimalRaw(_)
NatToDecimalRaw(n) ==
  IF n = <<>> THEN <<>>
  ELSE LET dm == NatDivModRaw(n, 10, 0)
       IN Append(NatToDecimalRaw(NatNorm(dm.q)), dm.r)
NatToDecimal(n) == IF n = <<>> THEN <<0>> ELSE NatToDecimalRaw(n)


(***************************************************************************)
(* Bytes and bits.                                                         *)
(***************************************************************************)
RECURSIVE BitOr(_, _)
BitOr(a, b) == IF a = 0 THEN b
               ELSE IF b = 0 THEN a
               ELSE 2 * BitOr(a \div 2, b \div 2)
                    + (IF a % 2 = 1 \/ b % 2 = 1 THEN 1 ELSE 0)

Reverse(s) == [i \in 1..Len(s) |-> s[Len(s) + 1 - i]] \o <<>>

Zeros(n) == [i \in 1..n |-> 0] \o <<>>

(***************************************************************************)
(* The value model (cbor-value.ts).  A value is a record [k, v]: k names   *)
(* the JavaScript type and v holds the content.                            *)
(*   "num"    number, an integer: v = [neg, mag]                           *)
(*   "big"    bigint:             v = [neg, mag]                           *)
(*   "inf"    the numbers Infinity and -Infinity: v = [neg]                *)
(*   "text"   string: v = its code points                                  *)
(*   "bytes"  Uint8Array, "buffer" ArrayBuffer: v = its bytes              *)
(*   "arr"    array: v = its elements                                      *)
(*   "map"    object: v = its entries [key, val] in Object.entries order   *)
(*   "false", "true", "null", "undefined": v = <<>>                        *)
(*   "stop"   the symbol CBOR_STOP_CODE: v = <<>>                          *)
(* Numbers are modelled over the integers they represent exactly           *)
(* (magnitude at most MAX_SAFE_INTEGER); strings over code points below    *)
(* U+0800 (one- and two-byte UTF-8).                                       *)
(***************************************************************************)
Num(m)     == [k |-> "num", v |-> [neg |-> FALSE, mag |-> m]]
NegNum(m)  == [k |-> "num", v |-> [neg |-> TRUE,  mag |-> m]]
Big(m)     == [k |-> "big", v |-> [neg |-> FALSE, mag |-> m]]
NegBig(m)  == [k |-> "big", v |-> [neg |-> TRUE,  mag |-> m]]
Infinity   == [k |-> "inf", v |-> [neg |-> FALSE]]
NegInfinity == [k |-> "inf", v |-> [neg |-> TRUE]]
Text(s)    == [k |-> "text", v |-> s]
Bytes(b)   == [k |-> "bytes", v |-> b]
Buffer(b)  == [k |-> "buffer", v |-> b]
Arr(xs)    == [k |-> "arr", v |-> xs]
Map(es)    == [k |-> "map", v |-> es]
Entry(key, val) == [key |-> key, val |-> val]
False      == [k |-> "false", v |-> <<>>]
True       == [k |-> "true", v |-> <<>>]
Null       == [k |-> "null", v |-> <<>>]
Undefined  == [k |-> "undefined", v |-> <<>>]
CBOR_STOP_CODE == [k |-> "stop", v |-> <<>>]

IsNumber(x) == x.k \in {"num", "big"}

\* enum CborMajorType
UnsignedInteger == 0
NegativeInteger == 1
ByteString == 2
TextString == 3
Array == 4
MapType == 5
Tag == 6
Simple == 7

\* enum CborSimpleType
SimpleFalse == 20
SimpleTrue == 21
SimpleNull == 22
SimpleUndefined == 23
Break == 31

\* enum CborMinorType
MinorValue == 23
OneByte == 24
TwoBytes == 25
FourBytes == 26
EightBytes == 27
Indefinite == 31

\* a literal range one too wide: 24 written into the header byte itself
TOKEN_VALUE_MAX_TooWide == <<24>>
TOKEN_VALUE_MAX == <<23>>
ONE_BYTE_MAX == <<255>>
TWO_BYTES_MAX == <<255, 255>>
FOUR_BYTES_MAX == <<255, 255, 255, 255>>
EIGHT_BYTES_MAX == <<255, 255, 255, 255, 255, 255, 255, 255>>
CBOR_SELF_DESCRIBED_TAG == 55799
\* Number.MAX_SAFE_INTEGER, 2^53 - 1
MAX_SAFE_INTEGER == <<31, 255, 255, 255, 255, 255, 255>>

\* util: the byte order handed to every DataView access
IS_LITTLE_ENDIAN == FALSE

INITIAL_BUFFER_SIZE == 2048
SAFE_BUFFER_END_OFFSET == 100

(***************************************************************************)
(* Errors.  An error is its class, its message text and, where the message *)
(* ends in a number, that number's decimal digits.                         *)
(***************************************************************************)
Err(name, text, num) == [name |-> name, text |-> text, num |-> num]
NoErr == Err("", "", <<>>)
EncodingError(text, num) == Err("EncodingError", text, num)
DecodingError(text, num) == Err("DecodingError", text, num)
RangeError(text) == Err("RangeError", text, <<>>)

(***************************************************************************)
(* UTF-8, as TextEncoder.encode and TextDecoder.decode (not fatal) convert *)
(* code points below U+0800: a byte that starts no such sequence decodes   *)
(* to U+FFFD.                                                              *)
(***************************************************************************)
\* seqs[lo] \o ... \o seqs[hi]
RECURSIVE Flatten(_, _, _)
Flatten(seqs, lo, hi) ==
  IF lo > hi THEN <<>>
  ELSE IF lo = hi THEN seqs[lo]
  ELSE Flatten(seqs, lo, (lo + hi) \div 2) \o Flatten(seqs, (lo + hi) \div 2 + 1, hi)

Utf8EncodeChar(c) == IF c < 128 THEN <<c>> ELSE <<192 + (c \div 64), 128 + (c % 64)>>

Utf8Encode(s) == Flatten([i \in 1..Len(s) |-> Utf8EncodeChar(s[i])], 1, Len(s))

\* b[i] is the lead byte of a well-formed two-byte sequence
Utf8Lead(b, i) ==
  /\ b[i] >= 194 /\ b[i] <= 223
  /\ i < Len(b) /\ b[i + 1] >= 128 /\ b[i + 1] <= 191

\* what the byte at i decodes to: nothing when it continues the sequence
\* the byte before it leads
Utf8DecodeAt(b, i) ==
  IF i > 1 /\ Utf8Lead(b, i - 1) THEN <<>>
  ELSE IF b[i] < 128 THEN <<b[i]>>
  ELSE IF Utf8Lead(b, i) THEN <<(b[i] - 192) * 64 + (b[i + 1] - 128)>>
  ELSE <<65533>>

Utf8Decode(b) == Flatten([i \in 1..Len(b) |-> Utf8DecodeAt(b, i)], 1, Len(b))


(***************************************************************************)
(* encode.ts.  The module state is the record e:                           *)
(*   e.target       the bytes of the Uint8Array `target`; `targetView` is  *)
(*                  always the DataView of the same buffer (lines 102-103, *)
(*                  243-244), so a write through it is a write to target   *)
(*   e.bytesOffset  the write offset                                       *)
(*   e.mapEntries   the last Object.entries(map)                           *)
(*   e.replaced     history: the invocations of the replacer in this call, *)
(*                  each the value and the key it was handed and the write *)
(*                  offset at that moment                                  *)
(*   e.count        history: how many bytes this call has stored so far    *)
(*   e.returned     history: the arrays encode has returned, each with the *)
(*                  bytes it held when returned (was), whether it views    *)
(*                  the buffer target views now (live), and the bytes it   *)
(*                  holds when it does not (now)                           *)
(* An operator returns [e, ok, v, err]: the state it leaves, whether it    *)
(* returned (ok) or threw (err), and what it returned (v).  Then(r, F)     *)
(* is the statement after a call: F of the call's result when the call     *)
(* returned, and the exception going up when it threw.                     *)
(***************************************************************************)
Ret(e, v)    == [e |-> e, ok |-> TRUE, v |-> v, err |-> NoErr]
Throw(e, er) == [e |-> e, ok |-> FALSE, v |-> <<>>, err |-> er]
Then(r, F(_)) == IF r.ok THEN F(r) ELSE r

\* a replacer or reviver call without a key argument
NoKey == [has |-> FALSE, key |-> <<>>]
Key(s) == [has |-> TRUE, key |-> s]

RECURSIVE IntToDecimal(_)
IntToDecimal(i) == IF i < 10 THEN <<i>> ELSE Append(IntToDecimal(i \div 10), i % 10)
\* i.toString(), as a string of code points
DigitsToString(ds) == [j \in 1..Len(ds) |-> 48 + ds[j]] \o <<>>
IndexToString(i) == DigitsToString(IntToDecimal(i))

encodeMajorType(majorType) == majorType * 32

resizeUint8Array(array, newSize) == array \o Zeros(newSize - Len(array))

\* DataView.setUint8/16/32/BigUint64: writes the bytes at byteOffset, or
\* throws a RangeError when they do not fit in the view
ViewSet(e, byteOffset, bytes) ==
  IF byteOffset + Len(bytes) > Len(e.target)
  THEN Throw(e, RangeError("Offset is outside the bounds of the DataView"))
  ELSE Ret([e EXCEPT !.target =
                 SubSeq(e.target, 1, byteOffset) \o bytes
                 \o SubSeq(e.target, byteOffset + Len(bytes) + 1, Len(e.target)),
                     !.count = @ + Len(bytes)], <<>>)

\* the bytes setUintN(offset, value, littleEndian) stores for a width of w
ViewBytes(mag, w, littleEndian) ==
  IF littleEndian THEN Reverse(NatToBytes(mag, w)) ELSE NatToBytes(mag, w)

\* one branch of encodeHeader: the header byte at bytesOffset++, then the
\* w-byte field at bytesOffset, then bytesOffset += w
HeaderField(e, mag, w) ==
  IF w = 0 THEN Ret(e, <<>>)
  ELSE Then(ViewSet(e, e.bytesOffset, ViewBytes(mag, w, IS_LITTLE_ENDIAN)),
            LAMBDA r : Ret([r.e EXCEPT !.bytesOffset = @ + w], <<>>))

HeaderWrite(e, first, mag, w) ==
  Then(ViewSet([e EXCEPT !.bytesOffset = @ + 1], e.bytesOffset, <<first>>),
       LAMBDA r : HeaderField(r.e, mag, w))

encodeHeader(e, majorType, value) ==
  IF NatLE(value.v.mag, TOKEN_VALUE_MAX)
  THEN HeaderWrite(e, BitOr(encodeMajorType(majorType), NatValue(value.v.mag)),
                   value.v.mag, 0)
  ELSE IF NatLE(value.v.mag, ONE_BYTE_MAX)
  THEN HeaderWrite(e, BitOr(encodeMajorType(majorType), OneByte), value.v.mag, 1)
  ELSE IF NatLE(value.v.mag, TWO_BYTES_MAX)
  THEN HeaderWrite(e, BitOr(encodeMajorType(majorType), TwoBytes), value.v.mag, 2)
  ELSE IF NatLE(value.v.mag, FOUR_BYTES_MAX)
  THEN HeaderWrite(e, BitOr(encodeMajorType(majorType), FourBytes), value.v.mag, 4)
  ELSE IF NatLE(value.v.mag, EIGHT_BYTES_MAX)
  THEN HeaderWrite(e, BitOr(encodeMajorType(majorType), EightBytes), value.v.mag, 8)
  ELSE Throw(e, EncodingError("Value too large to encode: ", NatToDecimal(value.v.mag)))

mapSimple(value) ==
  CASE value.k = "false" -> SimpleFalse
    [] value.k = "true" -> SimpleTrue
    [] value.k = "null" -> SimpleNull
    [] value.k = "undefined" -> SimpleUndefined

encodeSimple(e, value) == encodeHeader(e, Simple, Num(NatFromInt(mapSimple(value))))

\* target = resizeUint8Array(target, newSize); targetView = new DataView(target.buffer):
\* target is an array over a new buffer, and an array that shared the old
\* buffer keeps what that buffer holds
Retarget(e, newSize) ==
  [e EXCEPT !.target = resizeUint8Array(e.target, newSize),
            !.returned = [i \in 1..Len(e.returned) |->
                            IF e.returned[i].live
                            THEN [live |-> FALSE, was |-> e.returned[i].was,
                                  now |-> SubSeq(e.target, 1, Len(e.returned[i].was))]
                            ELSE e.returned[i]] \o <<>>]

\* lines 242-245: grow target when the bytes do not fit after bytesOffset
EnsureRoom(e, value) ==
  IF e.bytesOffset > Len(e.target) - Len(value)
  THEN Retarget(e, Len(e.target) + Len(value))
  ELSE e

\* lines 246-247: target.set(value, bytesOffset); bytesOffset += value.length
TargetSet(e, value) ==
  IF e.bytesOffset + Len(value) > Len(e.target)
  THEN Throw(e, RangeError("offset is out of bounds"))
  ELSE Ret([e EXCEPT
              !.target = SubSeq(e.target, 1, e.bytesOffset) \o value
                         \o SubSeq(e.target, e.bytesOffset + Len(value) + 1,
                                   Len(e.target)),
              !.bytesOffset = @ + Len(value),
              !.count = @ + Len(value)], <<>>)

encodeBytes(e, majorType, value) ==
  Then(encodeHeader(e, majorType, Num(NatFromInt(Len(value)))),
       LAMBDA r : TargetSet(EnsureRoom(r.e, value), value))

encodeInteger(e, majorType, value) == encodeHeader(e, majorType, value)

encodeUnsignedInteger(e, value) == encodeInteger(e, UnsignedInteger, value)

\* the magnitude of a negative value written as it is, without the -1 - value
encodeNegativeIntegerUnshifted(e, value) ==
  encodeInteger(e, NegativeInteger,
                [k |-> value.k, v |-> [neg |-> FALSE, mag |-> value.v.mag]])

\* -1 - value (or -1n - value), for a value below zero
encodeNegativeInteger(e, value) ==
  encodeInteger(e, NegativeInteger,
                [k |-> value.k, v |-> [neg |-> FALSE, mag |-> NatPred(value.v.mag)]])

encodeNumber(e, value) ==
  IF ~value.v.neg THEN encodeUnsignedInteger(e, value)
                  ELSE encodeNegativeInteger(e, value)

encodeTextString(e, value) == encodeBytes(e, TextString, Utf8Encode(value))

encodeByteString(e, value) == encodeBytes(e, ByteString, value)

(***************************************************************************)
(* Replacers and revivers are the caller's functions.  The model names the *)
(* ones it hands to the codec:                                             *)
(*   "none"     no function given (undefined)                              *)
(*   "double"   val => typeof val === 'number' ? val * 2 : val             *)
(*   "nullText" val => val === null ? 'null' : val                         *)
(*   "toNull"   val => typeof val === 'number' ? null : val                *)
(*   "reenter"  val => { encode(NestedValue); return val } as a replacer,  *)
(*              val => { decode(NestedInput); return val } as a reviver    *)
(***************************************************************************)
\* x ?? y
Coalesce(x, y) == IF x.k \in {"null", "undefined"} THEN y ELSE x

Double(val) == IF val.k = "num"
               THEN [val EXCEPT !.v.mag = NatAdd(val.v.mag, val.v.mag)]
               ELSE val

NullText(val) == IF val.k = "null" THEN Text(<<110, 117, 108, 108>>) ELSE val

ToNull(val) == IF val.k \in {"num", "inf"} THEN Null ELSE val

\* what a "reenter" callback encodes, and decodes, inside the outer call
NestedValue == Arr(<<True, False>>)
NestedInput == [buffer |-> <<246>>, byteOffset |-> 0, length |-> 1]

RECURSIVE encode(_, _, _)
RECURSIVE encodeItem(_, _, _)
RECURSIVE encodeArrayLoop(_, _, _, _, _)
RECURSIVE encodeMapLoop(_, _, _, _, _)

\* the replacer is entered with (value, key): one more invocation in e.replaced
Called(e, value, key) ==
  [e EXCEPT !.replaced = Append(@, [value |-> value, key |-> key, at |-> e.bytesOffset])]

\* replacer?.(value, key)
CallReplacer(e, replacer, value, key) ==
  CASE replacer = "none" -> Ret(e, Undefined)
    [] replacer = "double" -> Ret(Called(e, value, key), Double(value))
    [] replacer = "nullText" -> Ret(Called(e, value, key), NullText(value))
    [] replacer = "toNull" -> Ret(Called(e, value, key), ToNull(value))
    [] replacer = "reenter" ->
         Then(encode(Called(e, value, key), NestedValue, "none"),
              LAMBDA r : Ret(r.e, value))

\* replacer?.(value, key) ?? value
Replaced(e, replacer, value, key) ==
  Then(CallReplacer(e, replacer, value, key),
       LAMBDA r : Ret(r.e, Coalesce(r.v, value)))

\* the callback of items.forEach, for the item at index i:
\* encodeItem(replacer?.(item, i.toString()) ?? item, replacer)
\* an element handed to the replacer without its index
encodeArrayStepNoIndex(e, items, i, replacer) ==
  Then(Replaced(e, replacer, items[i + 1], NoKey),
       LAMBDA r : encodeItem(r.e, r.v, replacer))

encodeArrayStep(e, items, i, replacer) ==
  Then(Replaced(e, replacer, items[i + 1], Key(IndexToString(i))),
       LAMBDA r : encodeItem(r.e, r.v, replacer))

\* items.forEach over the indices lo .. hi - 1, one after the other: the
\* first half of the range, then the second from the state the first leaves
encodeArrayLoop(e, items, lo, hi, replacer) ==
  IF hi <= lo THEN Ret(e, <<>>)
  ELSE IF hi = lo + 1 THEN encodeArrayStep(e, items, lo, replacer)
  ELSE Then(encodeArrayLoop(e, items, lo, (lo + hi) \div 2, replacer),
            LAMBDA r : encodeArrayLoop(r.e, items, (lo + hi) \div 2, hi, replacer))

encodeArray(e, items, replacer) ==
  Then(encodeHeader(e, Array, Num(NatFromInt(Len(items)))),
       LAMBDA r : encodeArrayLoop(r.e, items, 0, Len(items), replacer))

\* an entry written value first, its key after it
encodeMapStepValueFirst(e, entries, i, replacer) ==
  Then(Replaced(e, replacer, entries[i + 1].val, Key(entries[i + 1].key)),
       LAMBDA r1 : Then(encodeItem(r1.e, r1.v, replacer),
       LAMBDA r2 : encodeTextString(r2.e, entries[i + 1].key)))

\* mapEntries.forEach(([key, value]) => { encodeTextString(key); encodeItem(...) }),
\* over the array that was in mapEntries when forEach was called
encodeMapStep(e, entries, i, replacer) ==
  Then(encodeTextString(e, entries[i + 1].key),
       LAMBDA r1 : Then(Replaced(r1.e, replacer, entries[i + 1].val,
                                 Key(entries[i + 1].key)),
       LAMBDA r2 : encodeItem(r2.e, r2.v, replacer)))

encodeMapLoop(e, entries, lo, hi, replacer) ==
  IF hi <= lo THEN Ret(e, <<>>)
  ELSE IF hi = lo + 1 THEN encodeMapStep(e, entries, lo, replacer)
  ELSE Then(encodeMapLoop(e, entries, lo, (lo + hi) \div 2, replacer),
            LAMBDA r : encodeMapLoop(r.e, entries, (lo + hi) \div 2, hi, replacer))

\* Object.entries(map)
ObjectEntries(map) == map

encodeMap(e, map, replacer) ==
  Then(encodeHeader([e EXCEPT !.mapEntries = ObjectEntries(map)], MapType,
                    Num(NatFromInt(Len(ObjectEntries(map))))),
       LAMBDA r : encodeMapLoop(r.e, r.e.mapEntries, 0, Len(r.e.mapEntries), replacer))

\* lines 101-104: double target when fewer than SAFE_BUFFER_END_OFFSET bytes are left
EnsureMargin(e) ==
  IF e.bytesOffset > Len(e.target) - SAFE_BUFFER_END_OFFSET
  THEN Retarget(e, Len(e.target) * 2)
  ELSE e

\* lines 106-141, after the margin check
encodeItemBody(e, item, replacer) ==
  CASE item.k \in {"false", "true", "null", "undefined"} -> encodeSimple(e, item)
    [] item.k \in {"num", "big"} -> encodeNumber(e, item)
    [] item.k = "inf" ->
         Throw(e, EncodingError("Value too large to encode: Infinity", <<>>))
    [] item.k = "text" -> encodeTextString(e, item.v)
    [] item.k \in {"bytes", "buffer"} -> encodeByteString(e, item.v)
    [] item.k = "arr" -> encodeArray(e, item.v, replacer)
    [] item.k = "map" -> encodeMap(e, item.v, replacer)
    [] item.k = "stop" -> Throw(e, EncodingError("Unsupported type: symbol", <<>>))

encodeItem(e, item, replacer) == encodeItemBody(EnsureMargin(e), item, replacer)

encodeTag(e, tag, value, replacer) ==
  Then(encodeHeader(e, Tag, Num(NatFromInt(tag))),
       LAMBDA r : encodeItem(r.e, value, replacer))

\* the bytes of target in [0, bytesOffset)
Written(e) == SubSeq(e.target, 1, IF e.bytesOffset < Len(e.target)
                                  THEN e.bytesOffset ELSE Len(e.target))

\* target.subarray(0, bytesOffset): an array over the buffer of target
TargetSubarray(e) == [live |-> TRUE, was |-> Written(e), now |-> Written(e)]

\* target.slice(0, bytesOffset): an array over a buffer of its own, holding
\* a copy of the bytes
TargetSlice(e) == [live |-> FALSE, was |-> Written(e), now |-> Written(e)]

\* return array
Return(e, array) == Ret([e EXCEPT !.returned = Append(@, array)], array.was)

encode(e, value, replacer) ==
  Then(Replaced([e EXCEPT !.bytesOffset = 0], replacer, value, NoKey),
  LAMBDA r1 : Then(encodeItem(r1.e, r1.v, replacer),
  LAMBDA r2 : Return(r2.e, TargetSlice(r2.e))))

encodeWithSelfDescribedTag(e, value, replacer) ==
  Then(Replaced([e EXCEPT !.bytesOffset = 0], replacer, value, NoKey),
  LAMBDA r1 : Then(encodeTag(r1.e, CBOR_SELF_DESCRIBED_TAG, r1.v, replacer),
  LAMBDA r2 : Return(r2.e, TargetSlice(r2.e))))

\* the state of encode.ts after the module is loaded (lines 29-32)
EncInit == [target |-> Zeros(INITIAL_BUFFER_SIZE), bytesOffset |-> 0, mapEntries |-> <<>>,
            replaced |-> <<>>, count |-> 0, returned |-> <<>>]

(***************************************************************************)
(* decode.ts.  The module state is the record d:                           *)
(*   d.cborBytes    the input Uint8Array: the ArrayBuffer it views         *)
(*                  (buffer), where it starts in it (byteOffset) and how   *)
(*                  many bytes it holds (length)                           *)
(*   d.dataView     where in the buffer the last DataView starts, -1 when  *)
(*                  undefined                                              *)
(*   d.bytesOffset  the read offset                                        *)
(*   d.oob          history: the indices (counted from the start of        *)
(*                  cborBytes) of the bytes read so far that lie outside   *)
(*                  cborBytes                                              *)
(*   d.revived      history: the invocations of the reviver so far, each   *)
(*                  the value and the key it was handed                    *)
(*   d.path         history: the values bytesOffset was given in this      *)
(*                  call, one after the other, each with whether it was    *)
(*                  decodeNextByte that gave it (header)                   *)
(*   d.reads        history: how many times decodeNextByte was entered in  *)
(*                  this call                                              *)
(*   d.turns        history: the iterations of the array and map loops in  *)
(*                  this call, each the value of d.reads when it began     *)
(*   d.slices       history: the byte strings made of the input in this    *)
(*                  call, each with the offsets it spans and whether it    *)
(*                  is a copy of those bytes or a view that shares them    *)
(* Operators return [e, ok, v, err] as those of encode.ts do, e being d.   *)
(***************************************************************************)
Uint8Array(bytes) == [buffer |-> bytes, byteOffset |-> 0, length |-> Len(bytes)]

\* the bytes of a Uint8Array
Contents(arr) == SubSeq(arr.buffer, arr.byteOffset + 1, arr.byteOffset + arr.length)

\* a length no buffer of the model reaches: a byte length or an item count
\* beyond it is read as FarOffset, every offset past the end of the input
\* behaving alike
FarOffset == 16777216
NatToInt(n) == IF Len(n) > 3 THEN FarOffset ELSE NatValue(n)

RECURSIVE IntToBinary(_)
IntToBinary(i) == IF i < 2 THEN <<i>> ELSE Append(IntToBinary(i \div 2), i % 2)

decodeMajorType(firstByte) == firstByte \div 32

decodeInfo(firstByte) == firstByte % 32

\* cborBytes.at(index), for an index inside cborBytes
At(arr, index) == arr.buffer[arr.byteOffset + index + 1]

\* bytesOffset = offset
Moved(d, offset, header) ==
  [d EXCEPT !.bytesOffset = offset,
            !.path = Append(@, [at |-> offset, header |-> header])]

\* decodeNextByte is entered
Read(d) == [d EXCEPT !.reads = @ + 1]

\* the body of a loop over the elements of an array or the pairs of a map
\* is entered
Turn(d) == [d EXCEPT !.turns = Append(@, d.reads)]

decodeNextByte(d) ==
  IF d.bytesOffset >= d.cborBytes.length
  THEN Throw(Read(d), DecodingError("Provided CBOR data is empty", <<>>))
  ELSE Ret(Moved(Read(d), d.bytesOffset + 1, TRUE),
           <<decodeMajorType(At(d.cborBytes, d.bytesOffset)),
             decodeInfo(At(d.cborBytes, d.bytesOffset))>>)

\* a getter that reads its bytes least significant first, whatever it is told
ViewNumberLittleEndian(raw, littleEndian, kind) ==
  [k |-> kind, v |-> [neg |-> FALSE, mag |-> NatNorm(Reverse(raw))]]

\* the number a DataView getter makes of the w bytes it reads
ViewNumber(raw, littleEndian, kind) ==
  [k |-> kind, v |-> [neg |-> FALSE,
                      mag |-> NatNorm(IF littleEndian THEN Reverse(raw) ELSE raw)]]

\* bytesOffset += w; return dataView.getUint8/16/32/BigUint64(0, littleEndian)
ViewGet(d, w, littleEndian, kind) ==
  IF d.dataView + w > Len(d.cborBytes.buffer)
  THEN Throw(Moved(d, d.bytesOffset + w, FALSE),
             RangeError("Offset is outside the bounds of the DataView"))
  ELSE Ret([Moved(d, d.bytesOffset + w, FALSE)
              EXCEPT !.oob = @ \cup {i \in d.bytesOffset..(d.bytesOffset + w - 1) :
                                       i >= d.cborBytes.length}],
           ViewNumber(SubSeq(d.cborBytes.buffer, d.dataView + 1, d.dataView + w),
                      littleEndian, kind))

\* line 204: dataView = new DataView(cborBytes.buffer, cborBytes.byteOffset + bytesOffset)
NewDataView(d) == [d EXCEPT !.dataView = d.cborBytes.byteOffset + d.bytesOffset]

decodeUnsignedInteger(d, info) ==
  IF info <= MinorValue THEN Ret(d, Num(NatFromInt(info)))
  ELSE IF d.cborBytes.byteOffset + d.bytesOffset > Len(d.cborBytes.buffer)
  THEN Throw(d, RangeError("Start offset is outside the bounds of the buffer"))
  ELSE CASE info = OneByte -> ViewGet(NewDataView(d), 1, IS_LITTLE_ENDIAN, "num")
         [] info = TwoBytes -> ViewGet(NewDataView(d), 2, IS_LITTLE_ENDIAN, "num")
         [] info = FourBytes -> ViewGet(NewDataView(d), 4, IS_LITTLE_ENDIAN, "num")
         [] info = EightBytes -> ViewGet(NewDataView(d), 8, IS_LITTLE_ENDIAN, "big")
         [] info = Indefinite -> Ret(NewDataView(d), Infinity)
         [] OTHER -> Throw(NewDataView(d),
                           DecodingError("Unsupported integer info: ", IntToBinary(info)))

\* -1 - value, or -1n - value
Negated(value) ==
  IF value.k = "inf" THEN NegInfinity
  ELSE [k |-> value.k, v |-> [neg |-> TRUE, mag |-> NatSucc(value.v.mag)]]

decodeNegativeInteger(d, info) ==
  Then(decodeUnsignedInteger(d, info), LAMBDA r : Ret(r.e, Negated(r.v)))

\* cborBytes.slice(from, to): a copy of the bytes of cborBytes in [from, to)
Min(x, y) == IF x < y THEN x ELSE y
Slice(arr, from, to) ==
  SubSeq(arr.buffer, arr.byteOffset + Min(from, arr.length) + 1,
         arr.byteOffset + Min(to, arr.length))

\* a byte string made of the bytes of cborBytes in [from, to): by slice, a
\* copy of them (copy), or a view that shares them with the input
Sliced(d, from, to, copy) ==
  [d EXCEPT !.slices = Append(@, [from |-> from, to |-> to, copy |-> copy])]

\* a byte string handed out as cborBytes.subarray(from, to)
ByteRunSubarray(d, safeByteLength) ==
  Ret(Sliced(Moved(d, d.bytesOffset + safeByteLength, FALSE),
             d.bytesOffset, d.bytesOffset + safeByteLength, FALSE),
      Slice(d.cborBytes, d.bytesOffset, d.bytesOffset + safeByteLength))

\* lines 243-245
ByteRun(d, safeByteLength) ==
  Ret(Sliced(Moved(d, d.bytesOffset + safeByteLength, FALSE),
             d.bytesOffset, d.bytesOffset + safeByteLength, TRUE),
      Slice(d.cborBytes, d.bytesOffset, d.bytesOffset + safeByteLength))

decodeByteString(d, info) ==
  Then(decodeUnsignedInteger(d, info),
       LAMBDA r : IF r.v.k = "inf" \/ NatLT(MAX_SAFE_INTEGER, r.v.v.mag)
                  THEN Throw(r.e, DecodingError("Byte length is too large", <<>>))
                  ELSE ByteRun(r.e, NatToInt(r.v.v.mag)))

decodeTextString(d, info) ==
  Then(decodeByteString(d, info), LAMBDA r : Ret(r.e, Utf8Decode(r.v)))

\* a simple value the decoder does not know decoded as undefined
decodeSimpleLenient(d, info) ==
  CASE info = SimpleFalse -> Ret(d, False)
    [] info = SimpleTrue -> Ret(d, True)
    [] info = SimpleNull -> Ret(d, Null)
    [] info = Break -> Ret(d, CBOR_STOP_CODE)
    [] OTHER -> Ret(d, Undefined)

decodeSimple(d, info) ==
  CASE info = SimpleFalse -> Ret(d, False)
    [] info = SimpleTrue -> Ret(d, True)
    [] info = SimpleNull -> Ret(d, Null)
    [] info = SimpleUndefined -> Ret(d, Undefined)
    [] info = Break -> Ret(d, CBOR_STOP_CODE)
    [] OTHER -> Throw(d, DecodingError("Unrecognized simple type: ", IntToBinary(info)))

RECURSIVE decode(_, _, _)
RECURSIVE decodeItem(_, _)
RECURSIVE decodeArrayIndefinite(_, _, _)
RECURSIVE decodeArrayLoop(_, _, _, _, _)
RECURSIVE decodeMapIndefinite(_, _, _, _)
RECURSIVE decodeMapLoop(_, _, _, _, _)

\* the reviver is entered with (value, key): one more invocation in d.revived
Invoked(d, value, key) ==
  [d EXCEPT !.revived = Append(@, [value |-> value, key |-> key])]

\* reviver?.(value, key)
CallReviver(d, reviver, value, key) ==
  CASE reviver = "none" -> Ret(d, Undefined)
    [] reviver = "double" -> Ret(Invoked(d, value, key), Double(value))
    [] reviver = "nullText" -> Ret(Invoked(d, value, key), NullText(value))
    [] reviver = "toNull" -> Ret(Invoked(d, value, key), ToNull(value))
    [] reviver = "reenter" ->
         Then(decode(Invoked(d, value, key), NestedInput, "none"),
              LAMBDA r : Ret(r.e, value))

\* reviver?.(value, key) ?? value
Revived(d, reviver, value, key) ==
  Then(CallReviver(d, reviver, value, key),
       LAMBDA r : Ret(r.e, Coalesce(r.v, value)))

\* lines 122-130: items until one decodes to CBOR_STOP_CODE
decodeArrayIndefinite(d, values, reviver) ==
  Then(decodeItem(d, reviver),
  LAMBDA r1 : IF r1.v = CBOR_STOP_CODE THEN Ret(r1.e, Arr(values))
              ELSE Then(Revived(Turn(r1.e), reviver, r1.v, NoKey),
                   LAMBDA r2 : decodeArrayIndefinite(r2.e, Append(values, r2.v), reviver)))

\* values[i] = x
ArraySet(values, i, x) ==
  IF i < Len(values) THEN [values EXCEPT ![i + 1] = x] ELSE Append(values, x)

\* lines 135-137: the body of the loop for (i = 0; i < arrayLength; i++)
\* an element stored as it was decoded, the reviver never seeing it
decodeArrayStepUnrevived(d, values, i, reviver) ==
  Then(decodeItem(Turn(d), reviver), LAMBDA r1 : Ret(r1.e, ArraySet(values, i, r1.v)))

decodeArrayStep(d, values, i, reviver) ==
  Then(decodeItem(Turn(d), reviver),
       LAMBDA r1 : Then(Revived(r1.e, reviver, r1.v, NoKey),
       LAMBDA r2 : Ret(r2.e, ArraySet(values, i, r2.v))))

\* lines 134-138: the loop over i = lo .. hi - 1, one index after the other:
\* the first half of the range, then the second from what the first leaves
decodeArrayLoop(d, values, lo, hi, reviver) ==
  IF hi <= lo THEN Ret(d, values)
  ELSE IF hi = lo + 1 THEN decodeArrayStep(d, values, lo, reviver)
  ELSE Then(decodeArrayLoop(d, values, lo, (lo + hi) \div 2, reviver),
            LAMBDA r : decodeArrayLoop(r.e, r.v, (lo + hi) \div 2, hi, reviver))

\* new Array(arrayLength): arrayLength empty slots for a number, the
\* one-element array [arrayLength] for a bigint.  The loop fills slot after
\* slot, so the model keeps the slots not yet filled out of the sequence.
NewArray(arrayLength) == IF arrayLength.k = "big" THEN <<arrayLength>> ELSE <<>>

decodeArray(d, info, reviver) ==
  Then(decodeUnsignedInteger(d, info),
       LAMBDA r : IF r.v.k = "inf" THEN decodeArrayIndefinite(r.e, <<>>, reviver)
                  ELSE Then(decodeArrayLoop(r.e, NewArray(r.v), 0,
                                            NatToInt(r.v.v.mag), reviver),
                            LAMBDA r1 : Ret(r1.e, Arr(r1.v))))

\* whether a property key is an array index ("0", "7", "12": decimal digits
\* without a leading zero); the model's keys are shorter than ten digits
IsIndexKey(key) ==
  /\ Len(key) \in 1..9
  /\ \A j \in 1..Len(key) : key[j] \in 48..57
  /\ (Len(key) > 1 => key[1] # 48)

RECURSIVE IndexOf(_)
IndexOf(key) == IF key = <<>> THEN 0
                ELSE IndexOf(SubSeq(key, 1, Len(key) - 1)) * 10 + (key[Len(key)] - 48)

\* where a new property lands in the order Object.entries lists an object:
\* index keys first, ascending, then the other keys as they were added
KeySlot(map, key) ==
  IF IsIndexKey(key)
  THEN Cardinality({j \in 1..Len(map) : /\ IsIndexKey(map[j].key)
                                        /\ IndexOf(map[j].key) < IndexOf(key)})
  ELSE Len(map)

\* map[key] = x
MapSet(map, key, x) ==
  IF \E j \in 1..Len(map) : map[j].key = key
  THEN [j \in 1..Len(map) |-> IF map[j].key = key THEN Entry(key, x) ELSE map[j]] \o <<>>
  ELSE SubSeq(map, 1, KeySlot(map, key)) \o <<Entry(key, x)>>
       \o SubSeq(map, KeySlot(map, key) + 1, Len(map))

\* lines 170-172: the condition of the while loop
MapContinues(majorType, info) == majorType # Simple /\ info # Break

\* lines 170-179, entered with the header decodeNextByte has just read
decodeMapIndefinite(d, map, head, reviver) ==
  IF ~MapContinues(head[1], head[2]) THEN Ret(d, Map(map))
  ELSE Then(decodeTextString(Turn(d), head[2]),
       LAMBDA r1 : Then(decodeItem(r1.e, reviver),
       LAMBDA r2 : Then(Revived(r2.e, reviver, r2.v, Key(r1.v)),
       LAMBDA r3 : Then(decodeNextByte(r3.e),
       LAMBDA r4 : decodeMapIndefinite(r4.e, MapSet(map, r1.v, r3.v), r4.v, reviver)))))

\* lines 187-189
KeyIsText(majorType) == majorType = TextString

\* lines 185-195: the body of the loop for (i = 0; i < mapLength; i++)
decodeMapStep(d, map, reviver) ==
  Then(decodeNextByte(Turn(d)),
       LAMBDA r0 : IF ~KeyIsText(r0.v[1])
                   THEN Throw(r0.e, DecodingError("Map keys must be text strings", <<>>))
                   ELSE Then(decodeTextString(r0.e, r0.v[2]),
       LAMBDA r1 : Then(decodeItem(r1.e, reviver),
       LAMBDA r2 : Then(Revived(r2.e, reviver, r2.v, Key(r1.v)),
       LAMBDA r3 : Ret(r3.e, MapSet(map, r1.v, r3.v))))))

\* lines 184-196: the loop over i = lo .. hi - 1, as decodeArrayLoop runs its own
decodeMapLoop(d, map, lo, hi, reviver) ==
  IF hi <= lo THEN Ret(d, map)
  ELSE IF hi = lo + 1 THEN decodeMapStep(d, map, reviver)
  ELSE Then(decodeMapLoop(d, map, lo, (lo + hi) \div 2, reviver),
            LAMBDA r : decodeMapLoop(r.e, r.v, (lo + hi) \div 2, hi, reviver))

decodeMap(d, info, reviver) ==
  Then(decodeUnsignedInteger(d, info),
       LAMBDA r : IF r.v.k = "inf"
                  THEN Then(decodeNextByte(r.e),
                            LAMBDA r0 : decodeMapIndefinite(r0.e, <<>>, r0.v, reviver))
                  ELSE Then(decodeMapLoop(r.e, <<>>, 0, NatToInt(r.v.v.mag), reviver),
                            LAMBDA r1 : Ret(r1.e, Map(r1.v))))

\* value === CBOR_SELF_DESCRIBED_TAG: a number equal to the tag
IsSelfDescribedTag(value) == value = Num(NatFromInt(CBOR_SELF_DESCRIBED_TAG))

\* a tag that hands the item it wraps to the reviver as one more node
decodeTagRevived(d, info, reviver) ==
  Then(decodeUnsignedInteger(d, info),
       LAMBDA r : Then(decodeItem(r.e, reviver),
                       LAMBDA r1 : Revived(r1.e, reviver, r1.v, NoKey)))

decodeTag(d, info, reviver) ==
  Then(decodeUnsignedInteger(d, info),
       LAMBDA r : IF IsSelfDescribedTag(r.v)
                  THEN decodeItem(r.e, reviver)
                  ELSE IF r.v.k = "inf"
                  THEN Throw(r.e, DecodingError("Unsupported tag: Infinity.", <<>>))
                  ELSE Throw(r.e, DecodingError("Unsupported tag: ${value}.",
                                                NatToDecimal(r.v.v.mag))))

\* lines 76-100: the switch on the major type
decodeItemBody(d, majorType, info, reviver) ==
  CASE majorType = UnsignedInteger -> decodeUnsignedInteger(d, info)
    [] majorType = NegativeInteger -> decodeNegativeInteger(d, info)
    [] majorType = ByteString ->
         Then(decodeByteString(d, info), LAMBDA r : Ret(r.e, Bytes(r.v)))
    [] majorType = TextString ->
         Then(decodeTextString(d, info), LAMBDA r : Ret(r.e, Text(r.v)))
    [] majorType = Array -> decodeArray(d, info, reviver)
    [] majorType = MapType -> decodeMap(d, info, reviver)
    [] majorType = Tag -> decodeTag(d, info, reviver)
    [] majorType = Simple -> decodeSimple(d, info)

decodeItem(d, reviver) ==
  Then(decodeNextByte(d), LAMBDA r : decodeItemBody(r.e, r.v[1], r.v[2], reviver))

\* a decode that rejects an input holding more than one item
decodeStrict(d, input, reviver) ==
  Then(decodeItem(Moved([d EXCEPT !.cborBytes = input], 0, FALSE), reviver),
       LAMBDA r : IF r.e.bytesOffset < r.e.cborBytes.length
                  THEN Throw(r.e, DecodingError("Unexpected data after the item", <<>>))
                  ELSE Revived(r.e, reviver, r.v, NoKey))

decode(d, input, reviver) ==
  Then(decodeItem(Moved([d EXCEPT !.cborBytes = input], 0, FALSE), reviver),
       LAMBDA r : Revived(r.e, reviver, r.v, NoKey))

\* the state of decode.ts after the module is loaded (lines 25-27)
DecInit == [cborBytes |-> Uint8Array(<<>>), dataView |-> -1, bytesOffset |-> 0,
            oob |-> {}, revived |-> <<>>, path |-> <<>>, slices |-> <<>>,
            reads |-> 0, turns |-> <<>>]

(***************************************************************************)
(* The calls.  `enc` and `dec` are the module states of encode.ts and      *)
(* decode.ts, `call` the last call of the API (op, its argument, and the   *)
(* replacer or reviver handed to it) and `out` what that call did: ok and  *)
(* the value returned, or the error thrown.  `ncalls` counts the calls.    *)
(***************************************************************************)
Outcome(r) == [ok |-> r.ok, v |-> r.v, err |-> r.err]

NoCall == [op |-> "none", arg |-> <<>>, fn |-> "none"]

Init ==
  /\ enc = EncInit
  /\ dec = DecInit
  /\ call = NoCall
  /\ out = Outcome(Ret(<<>>, <<>>))
  /\ ncalls = 0

EncodeCall(values, replacers, limit) ==
  /\ ncalls < limit
  /\ \E value \in values, replacer \in replacers :
       /\ call' = [op |-> "encode", arg |-> value, fn |-> replacer]
       /\ \E r \in {encode([enc EXCEPT !.replaced = <<>>, !.count = 0],
                            value, replacer)} :
            enc' = r.e /\ out' = Outcome(r)
  /\ ncalls' = ncalls + 1
  /\ UNCHANGED dec

EncodeTaggedCall(values, replacers, limit) ==
  /\ ncalls < limit
  /\ \E value \in values, replacer \in replacers :
       /\ call' = [op |-> "encodeWithSelfDescribedTag", arg |-> value, fn |-> replacer]
       /\ \E r \in {encodeWithSelfDescribedTag([enc EXCEPT !.replaced = <<>>, !.count = 0],
                                                value, replacer)} :
            enc' = r.e /\ out' = Outcome(r)
  /\ ncalls' = ncalls + 1
  /\ UNCHANGED dec

DecodeCall(inputs, revivers, limit) ==
  /\ ncalls < limit
  /\ \E input \in inputs, reviver \in revivers :
       /\ call' = [op |-> "decode", arg |-> input, fn |-> reviver]
       /\ \E r \in {decode([dec EXCEPT !.oob = {}, !.revived = <<>>,
                                         !.path = <<>>, !.slices = <<>>,
                                         !.reads = 0, !.turns = <<>>],
                            input, reviver)} :
            dec' = r.e /\ out' = Outcome(r)
  /\ ncalls' = ncalls + 1
  /\ UNCHANGED enc

(***************************************************************************)
(* Spec: any sequence of at most MaxCalls calls, each finishing before the *)
(* next starts, over a few values and inputs.                              *)
(***************************************************************************)
MaxCalls == 2

a == <<97>>
b == <<98>>

\* { a: <a Uint8Array of n zero bytes>, b: 1 }
BytesThenKey(n) == Map(<<Entry(a, Bytes(Zeros(n))), Entry(b, Num(<<1>>))>>)

SeqValues ==
  { Num(<<7>>),
    Arr(<<Num(<<1>>), Num(<<2>>)>>),
    Map(<<Entry(a, Arr(<<Num(<<1>>), Null, Arr(<<Num(<<200>>)>>)>>)),
          Entry(b, Map(<<Entry(b, Null), Entry(a, Text(a))>>))>>),
    BytesThenKey(INITIAL_BUFFER_SIZE - 9),
    BytesThenKey(INITIAL_BUFFER_SIZE - 6), BytesThenKey(INITIAL_BUFFER_SIZE - 5) }

SeqInputs ==
  { Uint8Array(<<>>), Uint8Array(<<246>>), Uint8Array(<<159, 1, 2, 255>>),
    Uint8Array(<<162, 97, 97, 1, 97, 98, 246>>) }

Callbacks == {"none", "double", "nullText", "reenter"}

Encode == EncodeCall(SeqValues, Callbacks, MaxCalls)
EncodeWithSelfDescribedTag == EncodeTaggedCall(SeqValues, Callbacks, MaxCalls)
Decode == DecodeCall(SeqInputs, Callbacks, MaxCalls)

Next == Encode \/ EncodeWithSelfDescribedTag \/ Decode

Spec == Init /\ [][Next]_vars

(***************************************************************************)
(* SpecEncode: one encode or encodeWithSelfDescribedTag call as the first  *)
(* call after module load, over the values around every width threshold,   *)
(* and then decode of the bytes that call returned.                        *)
(***************************************************************************)
Thresholds == { TOKEN_VALUE_MAX, ONE_BYTE_MAX, TWO_BYTES_MAX, FOUR_BYTES_MAX,
                MAX_SAFE_INTEGER, EIGHT_BYTES_MAX }

\* 0, 1, and n, n + 1, n + 2 for every threshold n
Magnitudes ==
  {<<>>, <<1>>} \cup Thresholds \cup {NatSucc(n) : n \in Thresholds}
  \cup {NatSucc(NatSucc(n)) : n \in Thresholds}

SafeMagnitudes == {m \in Magnitudes : NatLE(m, MAX_SAFE_INTEGER)}

IntegerValues ==
  {Num(m) : m \in SafeMagnitudes} \cup {NegNum(m) : m \in SafeMagnitudes \ {<<>>}}
  \cup {Big(m) : m \in Magnitudes} \cup {NegBig(m) : m \in Magnitudes \ {<<>>}}

\* the lengths around the thresholds a string, an array or a map can reach
Lengths == {0, 1, 23, 24, 255, 256}
LongLengths == {65535, 65536}

TextOf(n) == [i \in 1..n |-> 97 + (i % 26)] \o <<>>
BytesOf(n) == [i \in 1..n |-> (i * 7) % 256] \o <<>>
ArrayOf(n) == [i \in 1..n |-> Num(NatFromInt(i % 30))] \o <<>>
MapOf(n) == [i \in 1..n |-> Entry(IndexToString(i - 1), Num(NatFromInt(i)))] \o <<>>

EncValues ==
  IntegerValues
  \cup {False, True, Null, Undefined}
  \cup {Text(TextOf(n)) : n \in Lengths} \cup {Text(<<233>>), Text(<<97, 233, 98>>)}
  \cup {Bytes(BytesOf(n)) : n \in Lengths \cup LongLengths} \cup {Buffer(<<1, 2, 3>>)}
  \cup {Arr(ArrayOf(n)) : n \in Lengths}
  \cup {Map(MapOf(n)) : n \in Lengths}
  \cup { Arr(<<Arr(<<>>), Map(<<>>), Text(a), Null, Big(EIGHT_BYTES_MAX)>>),
         Map(<<Entry(a, Arr(<<Num(<<1>>), Undefined>>)),
               Entry(b, Map(<<Entry(a, NegNum(<<1, 0>>))>>))>>) }

EncodeValue == EncodeCall(EncValues, {"none"}, 1)
EncodeTaggedValue == EncodeTaggedCall(EncValues, {"none"}, 1)

\* decode(encode(v)): the call that follows an encode call that returned
DecodeEncoded ==
  /\ call.op \in {"encode", "encodeWithSelfDescribedTag"}
  /\ out.ok
  /\ DecodeCall({Uint8Array(out.v)}, {"none"}, 2)

NextEncode == EncodeValue \/ EncodeTaggedValue \/ DecodeEncoded

SpecEncode == Init /\ [][NextEncode]_vars

(***************************************************************************)
(* SpecDecode: one decode call as the first call after module load, over   *)
(* integer items of every header form, well-formed items and their proper  *)
(* prefixes, maps keyed by items that are not text, containers in their    *)
(* definite and indefinite forms, views onto part of a larger buffer,      *)
(* tagged items, breaks where an item is expected, indefinite-length maps  *)
(* with another header than the break in key position, and well-formed     *)
(* items with bytes after them.                                            *)
(***************************************************************************)
RECURSIVE Concat(_)
Concat(seqs) == IF seqs = <<>> THEN <<>> ELSE Head(seqs) \o Concat(Tail(seqs))

\* the sequences of at most n elements of S
SeqsUpTo(S, n) == UNION {[1..k -> S] : k \in 0..n}

\* how many bytes follow a header whose info is `info`
Width(info) ==
  CASE info = OneByte -> 1
    [] info = TwoBytes -> 2
    [] info = FourBytes -> 4
    [] info = EightBytes -> 8
    [] OTHER -> 0

\* trailing fields of w bytes: all zero, all ones, 1 2 .. w, and a single
\* one in the first or in the last byte
Trails(w) ==
  IF w = 0 THEN {<<>>}
  ELSE { Zeros(w), [i \in 1..w |-> 255] \o <<>>, [i \in 1..w |-> i] \o <<>>,
         [i \in 1..w |-> IF i = 1 THEN 1 ELSE 0] \o <<>>,
         [i \in 1..w |-> IF i = w THEN 1 ELSE 0] \o <<>> }

IntegerItems ==
  UNION { { <<encodeMajorType(mt) + info>> \o t : t \in Trails(Width(info)) } :
          mt \in {UnsignedInteger, NegativeInteger}, info \in 0..EightBytes }

\* headers with the reserved infos 28, 29, 30 and with info 31
OddItems ==
  { <<encodeMajorType(mt) + info>> : mt \in UnsignedInteger..Simple, info \in 28..31 }

WellFormed ==
  { <<24, 42>>, <<25, 1, 0>>, <<26, 0, 1, 0, 0>>, <<27, 0, 0, 0, 1, 0, 0, 0, 0>>,
    <<57, 1, 0>>, <<67, 1, 2, 3>>, <<99, 97, 98, 99>>, <<88, 2, 7, 8>>,
    <<130, 1, 2>>, <<129, 130, 1, 2>>, <<152, 2, 1, 2>>, <<159, 1, 2, 255>>,
    <<161, 97, 97, 1>>, <<162, 97, 97, 1, 97, 98, 130, 1, 2>>, <<130, 88, 2, 7, 8, 1>>,
    <<191, 97, 97, 1, 255>>, <<217, 217, 247, 1>>, <<244>>, <<246>>,
    <<159, 25, 1, 0, 255>> }

Prefixes(bytes) == {SubSeq(bytes, 1, n) : n \in 0..(Len(bytes) - 1)}

Truncated == UNION {Prefixes(bytes) : bytes \in WellFormed}

\* well-formed items that are not text strings, as map keys
NonTextKeys == { <<1>>, <<32>>, <<24, 97>>, <<65, 97>>, <<128>>, <<160>>, <<244>>, <<246>> }
\* well-formed items, as map values and array elements
Items == { <<1>>, <<24, 42>>, <<97, 2>>, <<246>>, <<130, 1, 32>> }
\* text strings, as map keys: "a", "b", "1"
KeyTexts == { <<97, 97>>, <<97, 98>>, <<97, 49>> }

NonTextKeyMaps ==
  UNION { { <<161>> \o k \o v, <<191>> \o k \o v \o <<255>>,
            <<162, 97, 97, 1>> \o k \o v, <<191, 97, 97, 1>> \o k \o v \o <<255>> } :
          k \in NonTextKeys, v \in Items }

\* the most items, and the most pairs, of a container
MaxItems == 2

\* the count header of major type mt for n in a field of w bytes
CountHeader(mt, n, w) ==
  IF w = 0 THEN <<encodeMajorType(mt) + n>>
  ELSE <<encodeMajorType(mt) + (CHOOSE info \in OneByte..EightBytes : Width(info) = w)>>
       \o NatToBytes(NatFromInt(n), w)

Definite(mt, items, w) == CountHeader(mt, Len(items), w) \o Concat(items)
IndefiniteForm(mt, items) == <<encodeMajorType(mt) + Indefinite>> \o Concat(items) \o <<255>>

ItemSeqs == SeqsUpTo(Items, MaxItems)
\* map values: a number, null and a nested array
PairItems == { <<1>>, <<246>>, <<130, 1, 32>> }
Pairs == {k \o v : k \in KeyTexts, v \in PairItems}
PairSeqs == SeqsUpTo(Pairs, MaxItems)

DefiniteContainers ==
  {Definite(Array, items, w) : items \in ItemSeqs, w \in {0, 1, 2, 4, 8}}
  \cup {Definite(MapType, pairs, w) : pairs \in PairSeqs, w \in {0, 1, 2, 4, 8}}

IndefiniteContainers ==
  {IndefiniteForm(Array, items) : items \in ItemSeqs}
  \cup {IndefiniteForm(MapType, pairs) : pairs \in PairSeqs}

\* input.subarray(from, to) of a Uint8Array over all of `bytes`
Subarray(bytes, from, to) == [buffer |-> bytes, byteOffset |-> from, length |-> to - from]

\* an item, or the start of one, inside a buffer that holds more
Views ==
  UNION { { Subarray(pre \o bytes, Len(pre), Len(pre) + n) : n \in 0..Len(bytes) } :
          pre \in {<<>>, <<255, 24>>}, bytes \in WellFormed }
  \cup { Subarray(pre \o bytes \o post, Len(pre), Len(pre) + Len(bytes)) :
           pre \in {<<>>, <<255, 24>>}, post \in {<<7>>, <<255, 1, 2>>},
           bytes \in WellFormed }

\* tag numbers, each in every header width that holds it, in front of an item
TagNumbers == {0, 1, 2, 23, 24, 255, 256, 55798, 55799, 55800, 65536}

TagWidths(n) ==
  {w \in {0, 1, 2, 4, 8} : \/ w >= 4
                           \/ w = 2 /\ n < 65536
                           \/ w = 1 /\ n < 256
                           \/ w = 0 /\ n < 24}

TagItems ==
  UNION { { CountHeader(Tag, n, w) \o item : w \in TagWidths(n), item \in Items } :
          n \in TagNumbers }
  \cup { <<219, 255, 255, 255, 255, 255, 255, 255, 255>> \o item : item \in Items }

\* a break (FF) where an item is expected: as an element of a definite-length
\* array, as a map value, and inside an indefinite-length array
StrayBreaks ==
  { <<129, 255>>, <<130, 1, 255>>, <<161, 97, 97, 255>>, <<159, 129, 255, 255>>,
    <<191, 97, 97, 255, 255>>, <<217, 217, 247, 255>> }

\* indefinite-length maps with, in key position, a header that is not the
\* break: of major type 7, or with additional information 31
OpenMaps ==
  { <<191, 224>>, <<191, 245, 255>>, <<191, 31>>, <<191, 97, 97, 1, 31, 255>>,
    <<191, 97, 97, 1, 127, 97, 98, 255, 255>>, <<191, 97, 97, 1, 159, 255, 255>>,
    <<191, 97, 97, 1, 248, 32, 255>> }

\* values, and what encode and encodeWithSelfDescribedTag return for them
TagValues ==
  { True, Num(<<7>>), Num(<<1, 0, 0, 0, 0>>), NegBig(<<1, 0>>), Text(a), Bytes(<<1, 2>>),
    Arr(<<Num(<<1>>), Null>>), Map(<<Entry(a, Arr(<<Num(<<2>>)>>)), Entry(b, Null)>>) }

Encoded(v) == encode(EncInit, v, "none").v
EncodedWithTag(v) == encodeWithSelfDescribedTag(EncInit, v, "none").v

\* well-formed encodings of one item, and what may follow one in the input
Complete == WellFormed \cup {Encoded(v) : v \in TagValues}
Tails == { <<0>>, <<255>>, <<255, 1, 2>>, <<24>>, <<191, 97>>, <<246, 246>> }

Trailed == {bytes \o tail : bytes \in Complete, tail \in Tails}

DecInputs ==
  { Uint8Array(bytes) : bytes \in IntegerItems \cup OddItems \cup WellFormed \cup Truncated
                                  \cup NonTextKeyMaps \cup DefiniteContainers
                                  \cup IndefiniteContainers
                                  \cup {Encoded(v) : v \in TagValues}
                                  \cup TagItems \cup StrayBreaks \cup OpenMaps
                                  \cup Trailed }
  \cup Views

DecRevivers == {"none", "double", "nullText", "toNull"}

DecodeInput == DecodeCall(DecInputs, DecRevivers, 1)

NextDecode == DecodeInput

SpecDecode == Init /\ [][NextDecode]_vars

(***************************************************************************)
(* SpecSimple: encode of each of the four simple values and decode of what *)
(* it returned, and decode, as the first call, of every header of major    *)
(* type 7, alone and with bytes after it.                                  *)
(***************************************************************************)
SimpleValues == {False, True, Null, Undefined}

SimpleTrails == { <<>>, <<0>>, <<20>>, <<255>>, <<1, 2, 3, 4, 5, 6, 7, 8>> }

SimpleInputs ==
  { Uint8Array(<<encodeMajorType(Simple) + info>> \o trail) :
      info \in 0..31, trail \in SimpleTrails }

EncodeSimpleValue == EncodeCall(SimpleValues, {"none"}, 1)
DecodeSimpleHeader == DecodeCall(SimpleInputs, {"none"}, 1)

NextSimple == EncodeSimpleValue \/ DecodeEncoded \/ DecodeSimpleHeader

SpecSimple == Init /\ [][NextSimple]_vars

(***************************************************************************)
(* SpecReplace: one encode or encodeWithSelfDescribedTag call with a       *)
(* replacer, as the first call after module load, over scalars and nested  *)
(* containers that hold numbers, null and undefined, and then decode of    *)
(* the bytes that call returned.                                           *)
(***************************************************************************)
ReplaceLeaves ==
  { Num(<<>>), Num(<<7>>), Num(<<200>>), NegNum(<<1>>), Big(<<5>>), Null, Undefined,
    True, Text(a), Bytes(<<1, 2>>) }

ReplaceValues ==
  ReplaceLeaves
  \cup { Arr(<<>>), Map(<<>>) }
  \cup { Arr(<<x, y>>) : x \in {Num(<<1>>), Null, Text(a)}, y \in {Num(<<2>>), Undefined} }
  \cup { Map(<<Entry(a, x), Entry(b, Arr(<<x, Num(<<3>>)>>))>>) :
            x \in {Num(<<1>>), Null, Undefined} }
  \cup { Arr(<<Map(<<Entry(a, Num(<<1>>))>>), Arr(<<Null, Arr(<<Num(<<24>>)>>)>>)>>) }

Replacers == {"double", "nullText", "toNull"}

EncodeReplaced == EncodeCall(ReplaceValues, Replacers, 1)
EncodeTaggedReplaced == EncodeTaggedCall(ReplaceValues, Replacers, 1)

NextReplace == EncodeReplaced \/ EncodeTaggedReplaced \/ DecodeEncoded

SpecReplace == Init /\ [][NextReplace]_vars

(***************************************************************************)
(* Properties.                                                             *)
(***************************************************************************)

\* a value with every ArrayBuffer read as the bytes it holds and every map
\* as the set of its entries, so that byte sequences compare by content and
\* maps by their entries
RECURSIVE Canonical(_)
Canonical(v) ==
  CASE v.k = "buffer" -> Bytes(v.v)
    [] v.k = "arr" -> Arr([i \in 1..Len(v.v) |-> Canonical(v.v[i])] \o <<>>)
    [] v.k = "map" ->
         [k |-> "map", v |-> {Entry(v.v[i].key, Canonical(v.v[i].val)) : i \in 1..Len(v.v)}]
    [] OTHER -> v

SameValue(x, y) == Canonical(x) = Canonical(y)

\* C1: decode(encode(v)) is structurally equal to v for every value v that
\* encode accepts, a number and a bigint of the same magnitude being unequal.
C1_RoundTrip ==
  [][(call.op = "encode" /\ out.ok /\ call'.op = "decode")
       => (out'.ok /\ SameValue(out'.v, call.arg))]_vars

\* what the call c does as the very first call after module load
FirstCallOutcome(c) ==
  CASE c.op = "encode" -> Outcome(encode(EncInit, c.arg, c.fn))
    [] c.op = "encodeWithSelfDescribedTag" ->
         Outcome(encodeWithSelfDescribedTag(EncInit, c.arg, c.fn))
    [] c.op = "decode" -> Outcome(decode(DecInit, c.arg, c.fn))

\* C2: in a sequence of top-level calls, each finishing before the next
\* starts, every call has the outcome the same call has as the first call
\* after module load.
C2_HistoryIndependent ==
  [][(call.fn # "reenter" /\ call'.fn # "reenter") => out' = FirstCallOutcome(call')]_vars

\* what the call c does from the module states e and d when it is handed fn
OutcomeFrom(e, d, c, fn) ==
  CASE c.op = "encode" -> Outcome(encode(e, c.arg, fn))
    [] c.op = "encodeWithSelfDescribedTag" ->
         Outcome(encodeWithSelfDescribedTag(e, c.arg, fn))
    [] c.op = "decode" -> Outcome(decode(d, c.arg, fn))

\* C3: a call whose replacer or reviver makes a nested encode or decode call
\* and returns the value unchanged has the result of the same call whose
\* callback makes no nested call.
C3_NestedCallHarmless ==
  [][call'.fn = "reenter" => out' = OutcomeFrom(enc, dec, call', "none")]_vars

\* C4: decode of an empty input or of a proper prefix of a well-formed
\* encoding fails, and fails with a DecodingError.
C4_TruncatedFails ==
  (call.op = "decode" /\ Contents(call.arg) \in Truncated)
    => (~out.ok /\ out.err.name = "DecodingError")

\* C5: every byte decode reads lies inside the input region it was handed.
C5_ReadsInsideInput == call.op = "decode" => dec.oob = {}

\* the fewest trailing bytes that hold n, for n up to 2^64 - 1
MinimalWidth(n) ==
  IF Len(n) = 0 \/ (Len(n) = 1 /\ n[1] <= 23) THEN 0
  ELSE IF Len(n) = 1 THEN 1
  ELSE IF Len(n) = 2 THEN 2
  ELSE IF Len(n) <= 4 THEN 4
  ELSE 8

\* n in w bytes, most significant first
BigEndian(n, w) == Zeros(w - Len(n)) \o n

MinimalHeader(mt, n) ==
  CASE MinimalWidth(n) = 0 -> <<mt * 32 + NatValue(n)>>
    [] MinimalWidth(n) = 1 -> <<mt * 32 + 24>> \o BigEndian(n, 1)
    [] MinimalWidth(n) = 2 -> <<mt * 32 + 25>> \o BigEndian(n, 2)
    [] MinimalWidth(n) = 4 -> <<mt * 32 + 26>> \o BigEndian(n, 4)
    [] MinimalWidth(n) = 8 -> <<mt * 32 + 27>> \o BigEndian(n, 8)

\* the encoding of v in which every header has the minimal width
RECURSIVE MinimalEncoding(_)
MinimalEncoding(v) ==
  CASE v.k \in {"num", "big"} ->
         IF v.v.neg THEN MinimalHeader(1, NatPred(v.v.mag))
                    ELSE MinimalHeader(0, v.v.mag)
    [] v.k \in {"bytes", "buffer"} -> MinimalHeader(2, NatFromInt(Len(v.v))) \o v.v
    [] v.k = "text" ->
         MinimalHeader(3, NatFromInt(Len(Utf8Encode(v.v)))) \o Utf8Encode(v.v)
    [] v.k = "arr" ->
         MinimalHeader(4, NatFromInt(Len(v.v)))
         \o Flatten([i \in 1..Len(v.v) |-> MinimalEncoding(v.v[i])], 1, Len(v.v))
    [] v.k = "map" ->
         MinimalHeader(5, NatFromInt(Len(v.v)))
         \o Flatten([i \in 1..Len(v.v) |->
                       MinimalEncoding(Text(v.v[i].key)) \o MinimalEncoding(v.v[i].val)],
                    1, Len(v.v))
    [] v.k = "false" -> <<244>>
    [] v.k = "true" -> <<245>>
    [] v.k = "null" -> <<246>>
    [] v.k = "undefined" -> <<247>>

\* C6: every header encode emits, for an integer value or for a string,
\* array or map length n, has the fewest trailing bytes that hold n (none up
\* to 23, 1 up to 255, 2 up to 65535, 4 up to 2^32 - 1, else 8), big-endian.
C6_MinimalWidth ==
  /\ (call.op = "encode" /\ out.ok) => out.v = MinimalEncoding(call.arg)
  /\ (call.op = "encodeWithSelfDescribedTag" /\ out.ok)
       => out.v = MinimalHeader(6, <<217, 247>>) \o MinimalEncoding(call.arg)

\* 2^32 as a number is written with an 8-byte field, 256 bytes with a 2-byte length
C6_Witness ==
  /\ call.op = "encode" /\ call.arg = Num(<<1, 0, 0, 0, 0>>)
  /\ out.ok /\ out.v = <<27, 0, 0, 0, 1, 0, 0, 0, 0>>

\* -2^64 <= v <= 2^64 - 1
InRange(v) ==
  IF v.v.neg THEN NatLE(v.v.mag, <<1, 0, 0, 0, 0, 0, 0, 0, 0>>)
             ELSE NatLE(v.v.mag, <<255, 255, 255, 255, 255, 255, 255, 255>>)

\* the magnitude that does not fit: v when v >= 2^64, -1 - v when v < -2^64
Misfit(v) == IF v.v.neg THEN NatPred(v.v.mag) ELSE v.v.mag

IsIntegerItem(bytes) ==
  /\ Len(bytes) >= 1
  /\ bytes[1] \div 32 \in {0, 1}
  /\ bytes[1] % 32 <= 27
  /\ Len(bytes) = 1 + Width(bytes[1] % 32)

\* m: the literal value of the header, or its trailing bytes read big-endian
FieldValue(bytes) ==
  IF bytes[1] % 32 <= 23 THEN NatFromInt(bytes[1] % 32)
  ELSE NatNorm(SubSeq(bytes, 2, Len(bytes)))

\* C8: decode of an integer item returns exactly m for major type 0 and
\* exactly -1 - m for major type 1, m being the header's literal value or
\* the big-endian value of its 1, 2, 4 or 8 trailing bytes.
C8_IntegerExact ==
  (call.op = "decode" /\ call.fn = "none" /\ IsIntegerItem(Contents(call.arg)))
    => /\ out.ok
       /\ IsNumber(out.v)
       /\ out.v.v = IF Contents(call.arg)[1] \div 32 = 0
                    THEN [neg |-> FALSE, mag |-> FieldValue(Contents(call.arg))]
                    ELSE [neg |-> TRUE,
                          mag |-> NatAdd(FieldValue(Contents(call.arg)), <<1>>)]

\* 3B FF FF FF FF FF FF FF FF decodes to -2^64
C8_Witness ==
  /\ call.op = "decode" /\ call.fn = "none"
  /\ call.arg = Uint8Array(<<59, 255, 255, 255, 255, 255, 255, 255, 255>>)
  /\ out.ok /\ out.v = NegBig(<<1, 0, 0, 0, 0, 0, 0, 0, 0>>)

\* C9: decode of a map, definite or indefinite, in which some key item is
\* not a text string fails with the DecodingError 'Map keys must be text
\* strings'.
C9_NonTextKeyRejected ==
  (call.op = "decode" /\ Contents(call.arg) \in NonTextKeyMaps)
    => (~out.ok /\ out.err = DecodingError("Map keys must be text strings", <<>>))

\* the indefinite-length form of a definite-length array or map: the count
\* header replaced by 9F or BF, and FF after the items
ToIndefinite(bytes) ==
  <<(bytes[1] \div 32) * 32 + 31>>
  \o SubSeq(bytes, 2 + Width(bytes[1] % 32), Len(bytes)) \o <<255>>

\* C10: the definite-length encoding of a sequence of items, or of text-key
\* and value pairs, and its indefinite-length encoding decode to equal
\* values, with or without a reviver.
C10_DefiniteEqualsIndefinite ==
  (call.op = "decode" /\ call.arg.byteOffset = 0
   /\ call.arg.length = Len(call.arg.buffer) /\ call.arg.buffer \in DefiniteContainers)
    => out = Outcome(decode(DecInit, Uint8Array(ToIndefinite(call.arg.buffer)), call.fn))

\* the input with D9 D9 F7 in front of its first byte, what lies around the
\* input in its buffer staying where it is
Tagged(arr) ==
  [buffer |-> SubSeq(arr.buffer, 1, arr.byteOffset) \o <<217, 217, 247>>
              \o SubSeq(arr.buffer, arr.byteOffset + 1, Len(arr.buffer)),
   byteOffset |-> arr.byteOffset, length |-> arr.length + 3]

\* decode(D9 D9 F7 ++ b, r) for the call decode(b, r)
TaggedDecode(c) == decode(DecInit, Tagged(c.arg), c.fn)

\* C11: whenever decode(b, r) returns a value, decode(D9 D9 F7 ++ b, r)
\* returns an equal value and invokes the reviver r on the same nodes in the
\* same order; and decode(encodeWithSelfDescribedTag(v)) equals
\* decode(encode(v)) for the values v both encoders accept.
C11_TagTransparent ==
  (call.op = "decode" /\ out.ok)
    => /\ Outcome(TaggedDecode(call)) = out
       /\ TaggedDecode(call).e.revived = dec.revived
       /\ \A v \in TagValues :
            call.arg = Uint8Array(Encoded(v))
              => Outcome(decode(DecInit, Uint8Array(EncodedWithTag(v)), call.fn)) = out

\* { a: 1, b: [1, 2] } with the doubling reviver: five invocations
C11_Witness ==
  /\ call.op = "decode" /\ call.fn = "double"
  /\ call.arg = Uint8Array(<<162, 97, 97, 1, 97, 98, 130, 1, 2>>)
  /\ out.ok /\ Len(dec.revived) = 5
  /\ Len(TaggedDecode(call).e.revived) = 5

\* the outcome o is the outcome p with the tag header in front: D9 D9 F7 and
\* then the bytes of p when p returned, a failure when p failed
TagPrefixed(o, p) ==
  IF p.ok THEN o.ok /\ o.v = <<217, 217, 247>> \o p.v ELSE ~o.ok

\* C12: encodeWithSelfDescribedTag(v, r) returns D9 D9 F7 followed by exactly
\* the bytes encode(v, r) returns whenever encode(v, r) returns, and fails
\* whenever encode(v, r) fails (r making no nested call).
C12_TagPrefix ==
  [][(call'.op = "encodeWithSelfDescribedTag" /\ call'.fn # "reenter")
       => TagPrefixed(out', Outcome(encode(enc, call'.arg, call'.fn)))]_vars

\* a whole array that starts with a complete Tag header
IsTagItem(arr) ==
  /\ arr.byteOffset = 0 /\ arr.length = Len(arr.buffer)
  /\ arr.length >= 1
  /\ arr.buffer[1] \div 32 = Tag
  /\ arr.buffer[1] % 32 <= EightBytes
  /\ arr.length >= 1 + Width(arr.buffer[1] % 32)

\* the number in the header of the first item: its literal value, or its
\* trailing bytes read big-endian
HeaderNumber(bytes) ==
  IF bytes[1] % 32 <= 23 THEN NatFromInt(bytes[1] % 32)
  ELSE NatNorm(SubSeq(bytes, 2, 1 + Width(bytes[1] % 32)))

\* what follows the header of the first item
AfterHeader(bytes) == SubSeq(bytes, 2 + Width(bytes[1] % 32), Len(bytes))

\* C13: decoding a Tag item returns the decoded value of the one nested item
\* when the tag number in the header is 55799, in whichever width it is
\* encoded, and fails with the DecodingError 'Unsupported tag: <n>' for
\* every other tag number n.
C13_TagNumber ==
  (call.op = "decode" /\ IsTagItem(call.arg))
    => IF HeaderNumber(call.arg.buffer) = NatFromInt(CBOR_SELF_DESCRIBED_TAG)
       THEN out = Outcome(decode(DecInit, Uint8Array(AfterHeader(call.arg.buffer)),
                                 call.fn))
       ELSE /\ ~out.ok
            /\ out.err = DecodingError("Unsupported tag: ${value}.",
                                       NatToDecimal(HeaderNumber(call.arg.buffer)))

\* what the callback fn makes of v, and v when it returns null or undefined
Applied(fn, v) ==
  Coalesce(CASE fn = "double" -> Double(v)
             [] fn = "nullText" -> NullText(v)
             [] fn = "toNull" -> ToNull(v)
             [] OTHER -> Undefined, v)

\* decode of an item on its own
Alone(item, fn) == decode(DecInit, Uint8Array(item), fn)

\* a whole array holding one of the containers of SpecDecode
IsContainer(arr, mt) ==
  /\ arr.byteOffset = 0 /\ arr.length = Len(arr.buffer)
  /\ arr.buffer \in DefiniteContainers \cup IndefiniteContainers
  /\ arr.buffer[1] \div 32 = mt

\* where the well-formed definite-length item that starts at bs[i] ends: the
\* index of the byte after it
RECURSIVE SkipItem(_, _)
RECURSIVE SkipItems(_, _, _)
SkipItem(bs, i) ==
  CASE bs[i] \div 32 \in {UnsignedInteger, NegativeInteger, Simple} ->
         i + 1 + Width(bs[i] % 32)
    [] bs[i] \div 32 \in {ByteString, TextString} ->
         i + 1 + Width(bs[i] % 32) + NatValue(HeaderNumber(SubSeq(bs, i, Len(bs))))
    [] bs[i] \div 32 = Array ->
         SkipItems(bs, i + 1 + Width(bs[i] % 32), NatValue(HeaderNumber(SubSeq(bs, i, Len(bs)))))
    [] bs[i] \div 32 = MapType ->
         SkipItems(bs, i + 1 + Width(bs[i] % 32),
                   2 * NatValue(HeaderNumber(SubSeq(bs, i, Len(bs)))))
    [] bs[i] \div 32 = Tag -> SkipItem(bs, i + 1 + Width(bs[i] % 32))

SkipItems(bs, i, n) == IF n = 0 THEN i ELSE SkipItems(bs, SkipItem(bs, i), n - 1)

\* the items that make up bs[i .. hi], one after the other
RECURSIVE SplitItems(_, _, _)
SplitItems(bs, i, hi) ==
  IF i > hi THEN <<>>
  ELSE <<SubSeq(bs, i, SkipItem(bs, i) - 1)>> \o SplitItems(bs, SkipItem(bs, i), hi)

\* the items between the header of a container and its end (the break of
\* an indefinite-length one), in wire order: the elements of an array, the
\* keys and the values of a map in turn
Body(bytes) ==
  SplitItems(bytes, 2 + Width(bytes[1] % 32),
             IF bytes[1] % 32 = Indefinite THEN Len(bytes) - 1 ELSE Len(bytes))

\* the child items of a container, in wire order: every element of an
\* array, the value of every pair of a map
Children(bytes) ==
  IF bytes[1] \div 32 = Array THEN Body(bytes)
  ELSE [j \in 1..(Len(Body(bytes)) \div 2) |-> Body(bytes)[2 * j]] \o <<>>

\* the key of the j-th pair of a map: the text of the item before its value
PairKey(bytes, j) == Alone(Body(bytes)[2 * j - 1], "none").v.v

\* the values handed to the reviver, invocation after invocation
Visited(revived) == [i \in 1..Len(revived) |-> revived[i].value] \o <<>>

\* the invocations decoding each child on its own makes, child after child
ChildVisits(items, fn) ==
  Flatten([j \in 1..Len(items) |-> Visited(Alone(items[j], fn).e.revived)], 1, Len(items))

\* C14: decode invokes the reviver exactly once for every decoded item, in
\* depth-first wire order: the invocations for a container are those for
\* its first child and all below it, then those for the next child, and so
\* on, and after them one invocation on the container, which then holds the
\* revived children; the last invocation is the one on the root, whose
\* result decode returns.
C14_ReviverOrder ==
  (call.op = "decode" /\ call.fn # "none" /\ out.ok)
    => /\ Len(dec.revived) >= 1
       /\ out.v = Applied(call.fn, dec.revived[Len(dec.revived)].value)
       /\ out.v.k \notin {"arr", "map"} => Len(dec.revived) = 1
       /\ (IsContainer(call.arg, Array) \/ IsContainer(call.arg, MapType))
            => /\ Visited(SubSeq(dec.revived, 1, Len(dec.revived) - 1))
                    = ChildVisits(Children(call.arg.buffer), call.fn)
       /\ IsContainer(call.arg, Array)
            => \A j \in 1..Len(Children(call.arg.buffer)) :
                 dec.revived[Len(dec.revived)].value.v[j]
                   = Alone(Children(call.arg.buffer)[j], call.fn).v
       /\ IsContainer(call.arg, MapType)
            => \A j \in 1..Len(Children(call.arg.buffer)) :
                 \/ \E i \in (j + 1)..Len(Children(call.arg.buffer)) :
                      PairKey(call.arg.buffer, i) = PairKey(call.arg.buffer, j)
                 \/ Entry(PairKey(call.arg.buffer, j),
                          Alone(Children(call.arg.buffer)[j], call.fn).v)
                      \in {dec.revived[Len(dec.revived)].value.v[i] :
                             i \in 1..Len(dec.revived[Len(dec.revived)].value.v)}

\* [[1, -1], 1] with the doubling reviver: 1, -1, [2, -2], 1 and the root
C14_Witness ==
  /\ call.op = "decode" /\ call.fn = "double"
  /\ call.arg = Uint8Array(<<130, 130, 1, 32, 1>>)
  /\ out.ok
  /\ Visited(dec.revived)
       = << Num(<<1>>), NegNum(<<1>>), Arr(<<Num(<<2>>), NegNum(<<2>>)>>), Num(<<1>>),
            Arr(<<Arr(<<Num(<<2>>), NegNum(<<2>>)>>), Num(<<2>>)>>) >>

\* which invocation is the one on the j-th child of a container: the last
\* of those its first j children make
ChildSlot(items, j, fn) == Len(ChildVisits(SubSeq(items, 1, j), fn))

\* C15: every reviver invocation receives as its key the map key when the
\* item is a map value, the stringified index ('0', '1', ...) when it is an
\* array element, of a definite-length or an indefinite-length array, and
\* no key for the root.
C15_ReviverKeys ==
  (call.op = "decode" /\ call.fn # "none" /\ out.ok)
    => /\ dec.revived[Len(dec.revived)].key = NoKey
       /\ IsContainer(call.arg, MapType)
            => \A j \in 1..Len(Children(call.arg.buffer)) :
                 dec.revived[ChildSlot(Children(call.arg.buffer), j, call.fn)].key
                   = Key(PairKey(call.arg.buffer, j))
       /\ IsContainer(call.arg, Array)
            => \A j \in 1..Len(Children(call.arg.buffer)) :
                 dec.revived[ChildSlot(Children(call.arg.buffer), j, call.fn)].key
                   = Key(IndexToString(j - 1))

\* the value encode serializes for v under the replacer fn: what fn makes
\* of v, and in it, of every element and every map value in turn
RECURSIVE ReplacedTree(_, _)
ReplacedTree(v, fn) ==
  CASE Applied(fn, v).k = "arr" ->
         Arr([j \in 1..Len(Applied(fn, v).v) |->
                ReplacedTree(Applied(fn, v).v[j], fn)] \o <<>>)
    [] Applied(fn, v).k = "map" ->
         Map([j \in 1..Len(Applied(fn, v).v) |->
                Entry(Applied(fn, v).v[j].key,
                      ReplacedTree(Applied(fn, v).v[j].val, fn))] \o <<>>)
    [] OTHER -> Applied(fn, v)

\* how many bytes the node v takes on the wire
EncodedLen(v, fn) == Len(MinimalEncoding(ReplacedTree(v, fn)))

\* the invocations for the node v and everything below it, top-down: fn is
\* invoked on v with its key when the write offset is `at`, and what it
\* returns is written from `start` on, each element after the array header
\* and the elements before it, each map value after its key
RECURSIVE Node(_, _, _, _, _)
RECURSIVE ElementsFrom(_, _, _, _)
RECURSIVE ValuesFrom(_, _, _, _)
Node(v, key, fn, at, start) ==
  <<[value |-> v, key |-> key, at |-> at]>>
  \o CASE Applied(fn, v).k = "arr" ->
           ElementsFrom(Applied(fn, v).v, 1, fn,
                        start + Len(MinimalHeader(Array, NatFromInt(Len(Applied(fn, v).v)))))
        [] Applied(fn, v).k = "map" ->
           ValuesFrom(Applied(fn, v).v, 1, fn,
                      start + Len(MinimalHeader(MapType, NatFromInt(Len(Applied(fn, v).v)))))
        [] OTHER -> <<>>

ElementsFrom(items, j, fn, at) ==
  IF j > Len(items) THEN <<>>
  ELSE Node(items[j], Key(IndexToString(j - 1)), fn, at, at)
       \o ElementsFrom(items, j + 1, fn, at + EncodedLen(items[j], fn))

ValuesFrom(entries, j, fn, at) ==
  IF j > Len(entries) THEN <<>>
  ELSE Node(entries[j].val, Key(entries[j].key), fn,
            at + EncodedLen(Text(entries[j].key), "none"),
            at + EncodedLen(Text(entries[j].key), "none"))
       \o ValuesFrom(entries, j + 1, fn,
                     at + EncodedLen(Text(entries[j].key), "none")
                        + EncodedLen(entries[j].val, fn))

\* the invocations of a call of encode or encodeWithSelfDescribedTag
Invocations(c) ==
  Node(c.arg, NoKey, c.fn, 0, IF c.op = "encode" THEN 0 ELSE 3)

\* an invocation without the offset it was made at
Unplaced(calls) ==
  [i \in 1..Len(calls) |-> [value |-> calls[i].value, key |-> calls[i].key]] \o <<>>

C17_SimpleValues ==
  /\ (call.op = "encode" /\ call.fn = "none" /\ call.arg \in SimpleValues)
       => /\ out.ok
          /\ out.v = CASE call.arg = False -> <<244>>
                        [] call.arg = True -> <<245>>
                        [] call.arg = Null -> <<246>>
                        [] call.arg = Undefined -> <<247>>
  /\ (call.op = "decode" /\ call.fn = "none" /\ call.arg.length >= 1
       /\ Contents(call.arg)[1] \div 32 = Simple)
       => CASE Contents(call.arg)[1] = 244 -> out.ok /\ out.v = False
            [] Contents(call.arg)[1] = 245 -> out.ok /\ out.v = True
            [] Contents(call.arg)[1] = 246 -> out.ok /\ out.v = Null
            [] Contents(call.arg)[1] = 247 -> out.ok /\ out.v = Undefined
            [] Contents(call.arg)[1] = 255 -> TRUE
            [] OTHER -> ~out.ok /\ out.err.name = "DecodingError"

\* F8 14, false in the one-byte form, is refused
C17_Witness ==
  /\ call.op = "decode" /\ call.arg = Uint8Array(<<248, 20>>)
  /\ ~out.ok
  /\ out.err = DecodingError("Unrecognized simple type: ", <<1, 1, 0, 0, 0>>)

\* the bytes an array encode returned holds now: those of target's buffer
\* when it views that buffer, its own otherwise
HeldNow(e, array) ==
  IF array.live THEN SubSeq(e.target, 1, Len(array.was)) ELSE array.now

WroteOutside(o) == ~o.ok /\ o.err.name = "RangeError"

\* C19: in every encode or encodeWithSelfDescribedTag call, after any
\* earlier calls, every write of n bytes happens at an offset with
\* offset + n <= capacity, the region having been grown first when needed:
\* no write is attempted outside the region.
C19_WritesInsideRegion ==
  call.op \in {"encode", "encodeWithSelfDescribedTag"} => ~WroteOutside(out)

\* CBOR_STOP_CODE occurs in v: as v itself, as an element or as a map value
RECURSIVE HasStop(_)
HasStop(v) ==
  CASE v.k = "stop" -> TRUE
    [] v.k = "arr" -> \E i \in 1..Len(v.v) : HasStop(v.v[i])
    [] v.k = "map" -> \E i \in 1..Len(v.v) : HasStop(v.v[i].val)
    [] OTHER -> FALSE

\* C20: for every input on which decode returns, CBOR_STOP_CODE occurs
\* nowhere in the returned value: not as the root, not as an element of an
\* array, not as a map value.
C20_NoStopCode ==
  (call.op = "decode" /\ out.ok) => ~HasStop(out.v)

\* the number Infinity or -Infinity occurs in v: as v itself, as an element
\* or as a map value
RECURSIVE HasIndefinite(_)
HasIndefinite(v) ==
  CASE v.k = "inf" -> TRUE
    [] v.k = "arr" -> \E i \in 1..Len(v.v) : HasIndefinite(v.v[i])
    [] v.k = "map" -> \E i \in 1..Len(v.v) : HasIndefinite(v.v[i].val)
    [] OTHER -> FALSE

\* C21: the value decodeUnsignedInteger makes of additional info 31 only
\* tells an indefinite-length array or map from a definite one: for every
\* input on which decode returns, no number in the result is Infinity or
\* -Infinity.
C21_IndefiniteNotAValue ==
  (call.op = "decode" /\ out.ok) => ~HasIndefinite(out.v)

\* the JavaScript type the claimed rule gives an integer of magnitude m
TypeByMagnitude(m) == IF NatLT(m, MAX_SAFE_INTEGER) THEN "num" ELSE "big"

\* C22: decode of an integer item returns a number when the magnitude of the
\* integer is below the safe-integer boundary and a bigint when it is at or
\* above it, whatever the width of the header field that holds it.
C22_TypeByMagnitude ==
  (call.op = "decode" /\ call.fn = "none" /\ IsIntegerItem(Contents(call.arg)))
    => /\ out.ok
       /\ IsNumber(out.v)
       /\ out.v.k = TypeByMagnitude(out.v.v.mag)

\* what the callback fn returns for v
Returned(fn, v) ==
  CASE fn = "double" -> Double(v)
    [] fn = "nullText" -> NullText(v)
    [] fn = "toNull" -> ToNull(v)
    [] OTHER -> v

\* the decoded value v with every node replaced by what fn returns for it,
\* the elements and map values of a container before the container itself
RECURSIVE RevivedTree(_, _)
RevivedTree(v, fn) ==
  CASE v.k = "arr" ->
         Returned(fn, Arr([j \in 1..Len(v.v) |-> RevivedTree(v.v[j], fn)] \o <<>>))
    [] v.k = "map" ->
         Returned(fn, Map([j \in 1..Len(v.v) |->
                             Entry(v.v[j].key, RevivedTree(v.v[j].val, fn))] \o <<>>))
    [] OTHER -> Returned(fn, v)

\* C23: with a reviver, the value stored in the enclosing array or map, or
\* returned by decode for the root, is exactly what the reviver returned for
\* that node, null and undefined included: decode returns the tree decoded
\* without a reviver with every node replaced by the reviver's return value.
C23_ReviverReturnStored ==
  (call.op = "decode" /\ call.fn \in {"double", "nullText", "toNull"} /\ out.ok)
    => out.v = RevivedTree(decode(DecInit, call.arg, "none").v, call.fn)

\* the value v with every node replaced by what fn returns for it, a
\* container before its elements and map values, which are those of the
\* container fn returned
RECURSIVE ReturnedTree(_, _)
ReturnedTree(v, fn) ==
  CASE Returned(fn, v).k = "arr" ->
         Arr([j \in 1..Len(Returned(fn, v).v) |->
                ReturnedTree(Returned(fn, v).v[j], fn)] \o <<>>)
    [] Returned(fn, v).k = "map" ->
         Map([j \in 1..Len(Returned(fn, v).v) |->
                Entry(Returned(fn, v).v[j].key,
                      ReturnedTree(Returned(fn, v).v[j].val, fn))] \o <<>>)
    [] OTHER -> Returned(fn, v)

\* C24: with a replacer, the bytes written for a node are the encoding of
\* exactly the value the replacer returned for it, null and undefined
\* included: encode returns the encoding, without a replacer, of the value
\* with every node replaced by the replacer's return value (a number the
\* replacer maps to null is written as F6).
C24_ReplacerReturnWritten ==
  (call.op = "encode" /\ call.fn \in Replacers)
    => /\ out.ok
       /\ out.v = Encoded(ReturnedTree(call.arg, call.fn))

\* a whole array holding one of the definite-length containers of SpecDecode
IsDefinite(arr, mt) == IsContainer(arr, mt) /\ arr.buffer[1] % 32 # Indefinite

\* the map built from the first j pairs of a map item, pair after pair
RECURSIVE MapOfPairs(_, _)
MapOfPairs(bytes, j) ==
  IF j = 0 THEN <<>>
  ELSE MapSet(MapOfPairs(bytes, j - 1), PairKey(bytes, j),
              Alone(Children(bytes)[j], "none").v)

\* C25: decode of a definite-length array or map whose header declares the
\* count n, in the header byte or in a field of 1, 2, 4 or 8 bytes, returns
\* an array of exactly n elements, or the map built from exactly n pairs,
\* taken from the next n items (or pairs) in wire order, and leaves the read
\* offset right after the last of them; n = 0 gives the empty array or map.
C25_DefiniteCount ==
  /\ (call.op = "decode" /\ call.fn = "none" /\ IsDefinite(call.arg, Array))
       => /\ out.ok
          /\ out.v.k = "arr"
          /\ Len(out.v.v) = NatValue(HeaderNumber(call.arg.buffer))
          /\ Len(Children(call.arg.buffer)) = Len(out.v.v)
          /\ \A j \in 1..Len(out.v.v) :
                out.v.v[j] = Alone(Children(call.arg.buffer)[j], "none").v
          /\ dec.bytesOffset = call.arg.length
  /\ (call.op = "decode" /\ call.fn = "none" /\ IsDefinite(call.arg, MapType))
       => /\ out.ok
          /\ Len(Children(call.arg.buffer)) = NatValue(HeaderNumber(call.arg.buffer))
          /\ out.v = Map(MapOfPairs(call.arg.buffer, Len(Children(call.arg.buffer))))
          /\ dec.bytesOffset = call.arg.length

\* what a container holds on the wire after its header: every element of an
\* array encoded on its own, in index order; for a map, entry after entry
\* in iteration order, the key encoded as a text string and then the value
Serialized(v) ==
  IF v.k = "arr"
  THEN Flatten([j \in 1..Len(v.v) |-> Encoded(v.v[j])], 1, Len(v.v))
  ELSE Flatten([j \in 1..Len(v.v) |-> Encoded(Text(v.v[j].key)) \o Encoded(v.v[j].val)],
               1, Len(v.v))

C27_CursorInvariant ==
  (call.op = "decode" /\ call.fn # "reenter")
    => /\ Len(dec.path) >= 1
       /\ dec.path[1] = [at |-> 0, header |-> FALSE]
       /\ \A i \in 2..Len(dec.path) :
            /\ dec.path[i].at >= dec.path[i - 1].at
            /\ dec.path[i].header => dec.path[i].at >= dec.path[i - 1].at + 1
       /\ dec.bytesOffset = dec.path[Len(dec.path)].at
       /\ dec.cborBytes = call.arg
       /\ \A i \in 1..Len(dec.slices) : dec.slices[i].copy

\* [h'0708', 1]: offsets 0, 1 (array header), 2 (string header), 3 (length
\* field), 5 (the two bytes), 6 (header of 1)
C27_Witness ==
  /\ call.op = "decode" /\ call.fn = "none"
  /\ call.arg = Uint8Array(<<130, 88, 2, 7, 8, 1>>)
  /\ out.ok /\ out.v = Arr(<<Bytes(<<7, 8>>), Num(<<1>>)>>)
  /\ [i \in 1..Len(dec.path) |-> dec.path[i].at] = <<0, 1, 2, 3, 5, 6>>
  /\ dec.slices = <<[from |-> 3, to |-> 5, copy |-> TRUE]>>

\* C28: the loop over an indefinite-length map ends only at the break byte
\* FF; any other header byte in key position is decoded as a text-string
\* key or rejected with a DecodingError, never taken as the end of the map.
\* When decode returns for an input that is an indefinite-length map, the
\* last header read, the one that ended the loop, is FF.
C28_MapEndsAtBreak ==
  (/\ call.op = "decode" /\ call.fn = "none"
   /\ call.arg.length >= 1 /\ At(call.arg, 0) = encodeMajorType(MapType) + Indefinite
   /\ out.ok)
    => At(call.arg, dec.bytesOffset - 1) = encodeMajorType(Simple) + Break

\* C29: decode decodes one top-level item and ignores what follows it: for
\* a well-formed encoding of one item followed by any bytes, decode returns
\* what it returns for the encoding alone, leaves the read offset at the end
\* of the item, and raises no error for the bytes it did not read.
C29_TrailingIgnored ==
  call.op = "decode"
    => \A bytes \in Complete, tail \in Tails :
         call.arg = Uint8Array(bytes \o tail)
           => /\ Alone(bytes, call.fn).ok
              /\ out = Outcome(Alone(bytes, call.fn))
              /\ dec.bytesOffset = Len(bytes)

\* [1, 2] followed by FF 01 02
C29_Witness ==
  /\ call.op = "decode" /\ call.fn = "none"
  /\ call.arg = Uint8Array(<<130, 1, 2, 255, 1, 2>>)
  /\ out.ok /\ out.v = Arr(<<Num(<<1>>), Num(<<2>>)>>)
  /\ dec.bytesOffset = 3

\* an indefinite-length array or map in which no break byte occurs
NoBreak(arr) ==
  /\ arr.length >= 1
  /\ At(arr, 0) \in {encodeMajorType(Array) + Indefinite, encodeMajorType(MapType) + Indefinite}
  /\ \A i \in 0..(arr.length - 1) : At(arr, i) # encodeMajorType(Simple) + Break

\* every iteration of the array and map loops enters decodeNextByte at
\* least once before the next iteration, or the end of the call
ReadsEveryTurn(d) ==
  \A i \in 1..Len(d.turns) :
    d.turns[i] < (IF i < Len(d.turns) THEN d.turns[i + 1] ELSE d.reads)

\* C30: decode, with no reviver or one that returns, terminates on every
\* finite input: every iteration of the array and map loops reads at least
\* one header, one call reads at most input.length + 1 headers (the last
\* being the one at which decodeNextByte fails), and an indefinite-length
\* array or map with no break marker ends in a DecodingError.
C30_Terminates ==
  (call.op = "decode" /\ call.fn # "reenter")
    => /\ ReadsEveryTurn(dec)
       /\ dec.reads <= call.arg.length + 1
       /\ NoBreak(call.arg) => (~out.ok /\ out.err.name = "DecodingError")

====
